---- MODULE Spec2Model ----
(***************************************************************************)
(* Model of the client-side notification scheduler of TimeTaskTracker      *)
(* (client/src/lib/notifications.ts), of the page that drives it           *)
(* (client/src/pages/home.tsx), and of the server's routes and storage     *)
(* (server/routes.ts, server/storage.ts, shared/schema.ts).                *)
(*                                                                         *)
(* Time is counted in whole minutes: the task form builds scheduledDate    *)
(* from a date and an HH:mm time, so due times are whole minutes, and the  *)
(* only constant of the scheduler, 5 * 60 * 1000 ms, is 5 of these units.  *)
(***************************************************************************)
EXTENDS Integers, Sequences, FiniteSets, TLC

\* ---------------------------------------------------------------- bounds
NumTasks == 2
MaxTime == 6
MaxTimers == 4
MaxRequests == 1
MaxSerial == 2

\* ------------------------------------------------------ program constants
\* 5 * 60 * 1000 ms, in minutes (notifications.ts:87)
ReminderLead == 5
\* window.setTimeout takes its delay as a 32-bit signed integer of
\* milliseconds: 35791 is the largest whole number of minutes below 2^31 ms.
MaxTimerDelay == 35791

TaskIds == 1 .. NumTasks
\* Due times the model draws from: one that is due within the reminder lead
\* at time 0, one that is further away, and one further away than a timer
\* delay can express.
Dates == {1, 6, MaxTimerDelay + 2}
Task == [id : TaskIds, scheduledDate : Dates, completed : BOOLEAN]
\* The scheduler reads only id and scheduledDate of a task, so its direct
\* calls are drawn from the incomplete tasks; the page also calls it with
\* a completed task (ToggleTask).
IncompleteTasks == {task \in Task : ~task.completed}

Permissions == {"default", "granted", "denied", "unsupported"}

\* String(n) for a non-negative integer: its decimal digits.
Digit(d) ==
    CASE d = 0 -> "0" [] d = 1 -> "1" [] d = 2 -> "2" [] d = 3 -> "3"
      [] d = 4 -> "4" [] d = 5 -> "5" [] d = 6 -> "6" [] d = 7 -> "7"
      [] d = 8 -> "8" [] d = 9 -> "9"

RECURSIVE Decimal(_)
Decimal(n) ==
    IF n < 10 THEN Digit(n) ELSE Decimal(n \div 10) \o Digit(n % 10)

\* Keys of the scheduledNotifications map: the number task.id and the
\* string `${task.id}-reminder`.  A Map compares keys by type and value, so
\* a key is its type with its text.
ExactKey(taskId) == <<"number", Decimal(taskId)>>
ReminderKey(taskId) == <<"string", Decimal(taskId) \o "-reminder">>
Keys == {ExactKey(i) : i \in TaskIds} \cup {ReminderKey(i) : i \in TaskIds}

\* Two task ids of which the decimal text of one begins the other's, and
\* the tasks with these ids.
PrefixIds == {1, 11}
PrefixTasks == [id : PrefixIds, scheduledDate : Dates, completed : {FALSE}]

VARIABLES
    now,                      \* wall clock, minutes
    platformPermission,       \* Notification.permission, or "unsupported"
    prompt,                   \* the caller whose permission prompt is open
    permissionGranted,        \* NotificationService.permissionGranted
    scheduledNotifications,   \* NotificationService.scheduledNotifications
    timers,                   \* the platform's pending timers, by handle
    nextHandle,               \* the handle the next setTimeout returns
    store,                    \* the rows of the tasks table, by id
    nextId,                   \* the next value of the serial id column
    tasks,                    \* the page's task list (query data), by id
    hasNotificationPermission,\* the page's React state of that name
    requests,                 \* create/update/delete requests in flight
    fetch,                    \* the GET /api/tasks query of the page
    lastOp,                   \* the operation that produced this state
    db,                       \* the rows of the tasks table, in full
    serial,                   \* the next value of the sequence behind id
    serverNow,                \* the clock behind defaultNow()
    reply                     \* the last request the server answered

pageVars == <<store, nextId, tasks, hasNotificationPermission, requests,
              fetch>>
serverVars == <<db, serial, serverNow, reply>>
vars == <<now, platformPermission, prompt, permissionGranted,
          scheduledNotifications, timers, nextHandle, store, nextId, tasks,
          hasNotificationPermission, requests, fetch, lastOp, db, serial,
          serverNow, reply>>

\* Map.delete
MapDelete(m, k) == [x \in DOMAIN m \ {k} |-> m[x]]
\* Map.set
MapSet(m, k, v) == [x \in DOMAIN m \cup {k} |-> IF x = k THEN v ELSE m[x]]

\* ------------------------------------------------------- platform timers
\* The delay a timer really waits: the platform converts the delay to a
\* 32-bit signed integer of milliseconds and treats a negative result as 0.
\* The dates of the model keep every delay below 2^32 ms.
TimerDelay(delay) ==
    IF delay <= MaxTimerDelay THEN delay ELSE 0

\* The service state the operations below transform: the map, the pending
\* timers of the platform and the next timer handle.
Svc(m, tm, n) == [map |-> m, timers |-> tm, next |-> n]

\* window.setTimeout: a new pending timer under a fresh positive handle;
\* handles are never reused. `reminder` records, for a due-now timer, what
\* became of the reminder timer set by the same scheduleNotification call.
setTimeout(svc, kind, task, delay, t, reminder) ==
    Svc(svc.map,
        MapSet(svc.timers, svc.next,
               [kind |-> kind, taskId |-> task.id, due |-> task.scheduledDate,
                fireAt |-> t + TimerDelay(delay), reminder |-> reminder]),
        svc.next + 1)

\* clearTimeout: a pending timer is removed, any other handle is ignored.
clearTimeout(tm, h) == MapDelete(tm, h)

\* --------------------------------------------------- NotificationService
\* clearKey that forgets the entry but leaves its timer running.
clearKey_noCancel(svc, k) ==
    IF k \in DOMAIN svc.map /\ svc.map[k] # 0
    THEN Svc(MapDelete(svc.map, k), svc.timers, svc.next)
    ELSE svc

\* One half of clearNotification: `if (timeoutId) { clearTimeout; delete }`
clearKey(svc, k) ==
    IF k \in DOMAIN svc.map /\ svc.map[k] # 0
    THEN Svc(MapDelete(svc.map, k), clearTimeout(svc.timers, svc.map[k]),
             svc.next)
    ELSE svc

\* clearNotification that forgets the reminder key.
clearNotification_exactOnly(svc, taskId) ==
    clearKey(svc, ExactKey(taskId))

\* The decimal text of j begins with the decimal text of i.
RECURSIVE StartsWith(_, _)
StartsWith(j, i) == j = i \/ (j >= 10 /\ StartsWith(j \div 10, i))

\* clearNotification that clears every key whose text begins with the id.
clearNotification_byPrefix(svc, taskId) ==
    LET ks == {k \in DOMAIN svc.map :
                  \E j \in PrefixIds \cup TaskIds :
                      /\ StartsWith(j, taskId)
                      /\ k \in {ExactKey(j), ReminderKey(j)}}
    IN  Svc([k \in DOMAIN svc.map \ ks |-> svc.map[k]],
            [h \in DOMAIN svc.timers \ {svc.map[k] : k \in ks}
                |-> svc.timers[h]],
            svc.next)

\* clearNotification(taskId), notifications.ts:156-170
clearNotification(svc, taskId) ==
    clearKey(clearKey(svc, ExactKey(taskId)), ReminderKey(taskId))

\* clearAllNotifications that empties the map without cancelling timers.
clearAllNotifications_noCancel(svc) ==
    Svc(<<>>, svc.timers, svc.next)

\* clearAllNotifications(), notifications.ts:172-177
clearAllNotifications(svc) ==
    Svc(<<>>,
        [h \in DOMAIN svc.timers \ {svc.map[k] : k \in DOMAIN svc.map}
            |-> svc.timers[h]],
        svc.next)

Max(a, b) == IF a >= b THEN a ELSE b

\* setReminder that stores the reminder under the task id itself.
setReminder_sameKey(svc, task, timeDiff, t) ==
    LET reminderTime == Max(timeDiff - ReminderLead, 0)
    IN IF reminderTime > 0
       THEN LET set == setTimeout(svc, "reminder", task, reminderTime, t,
                                  "none")
            IN Svc(MapSet(set.map, ExactKey(task.id), svc.next),
                   set.timers, set.next)
       ELSE svc

\* setReminder that also sets a reminder of delay 0.
setReminder_always(svc, task, timeDiff, t) ==
    LET reminderTime == Max(timeDiff - ReminderLead, 0)
    IN IF reminderTime >= 0
       THEN LET set == setTimeout(svc, "reminder", task, reminderTime, t,
                                  "none")
            IN Svc(MapSet(set.map, ReminderKey(task.id), svc.next),
                   set.timers, set.next)
       ELSE svc

\* The reminder part of scheduleNotification, notifications.ts:86-93
setReminder(svc, task, timeDiff, t) ==
    LET reminderTime == Max(timeDiff - ReminderLead, 0)
    IN IF reminderTime > 0
       THEN LET set == setTimeout(svc, "reminder", task, reminderTime, t,
                                  "none")
            IN Svc(MapSet(set.map, ReminderKey(task.id), svc.next),
                   set.timers, set.next)
       ELSE svc

\* The due-now part of scheduleNotification, notifications.ts:95-101
setExact(svc, task, timeDiff, t, reminder) ==
    LET set == setTimeout(svc, "exact", task, timeDiff, t, reminder)
    IN Svc(MapSet(set.map, ExactKey(task.id), svc.next),
           set.timers, set.next)

\* scheduleNotification that tests for a past due time before it clears.
scheduleNotification_skipBeforeClear(svc, granted, task, t) ==
    IF ~granted \/ task.scheduledDate - t < 0
    THEN svc
    ELSE LET cleared == clearNotification(svc, task.id)
             timeDiff == task.scheduledDate - t
             withReminder == setReminder(cleared, task, timeDiff, t)
         IN setExact(withReminder, task, timeDiff, t,
                     IF withReminder.next = cleared.next
                     THEN "none" ELSE "pending")

\* scheduleNotification that does not clear the alerts of the task first.
scheduleNotification_noClear(svc, granted, task, t) ==
    IF ~granted
    THEN svc
    ELSE LET timeDiff == task.scheduledDate - t
             withReminder == setReminder(svc, task, timeDiff, t)
         IN IF timeDiff < 0
            THEN svc
            ELSE setExact(withReminder, task, timeDiff, t,
                          IF withReminder.next = svc.next
                          THEN "none" ELSE "pending")

\* scheduleNotification that clears before it tests the permission flag.
scheduleNotification_clearFirst(svc, granted, task, t) ==
    LET cleared == clearNotification(svc, task.id)
        timeDiff == task.scheduledDate - t
        withReminder == setReminder(cleared, task, timeDiff, t)
    IN IF ~granted \/ timeDiff < 0
       THEN cleared
       ELSE setExact(withReminder, task, timeDiff, t,
                     IF withReminder.next = cleared.next
                     THEN "none" ELSE "pending")

\* scheduleNotification that also sets the due-now timer of a past-due task.
scheduleNotification_pastDue(svc, granted, task, t) ==
    IF ~granted
    THEN svc
    ELSE LET cleared == clearNotification(svc, task.id)
             timeDiff == task.scheduledDate - t
             withReminder == setReminder(cleared, task, timeDiff, t)
         IN setExact(withReminder, task, timeDiff, t,
                     IF withReminder.next = cleared.next
                     THEN "none" ELSE "pending")

\* scheduleNotification that ignores a task whose completed field is true.
scheduleNotification_skipCompleted(svc, granted, task, t) ==
    IF ~granted \/ task.completed
    THEN svc
    ELSE LET cleared == clearNotification(svc, task.id)
             timeDiff == task.scheduledDate - t
             withReminder == setReminder(cleared, task, timeDiff, t)
         IN IF timeDiff < 0
            THEN cleared
            ELSE setExact(withReminder, task, timeDiff, t,
                          IF withReminder.next = cleared.next
                          THEN "none" ELSE "pending")

\* scheduleNotification(task), notifications.ts:69-102
scheduleNotification(svc, granted, task, t) ==
    IF ~granted
    THEN svc
    ELSE LET cleared == clearNotification(svc, task.id)
             timeDiff == task.scheduledDate - t
             withReminder == setReminder(cleared, task, timeDiff, t)
         IN IF timeDiff < 0
            THEN cleared
            ELSE setExact(withReminder, task, timeDiff, t,
                          IF withReminder.next = cleared.next
                          THEN "none" ELSE "pending")

\* isTaskScheduled(taskId), notifications.ts:267-269
isTaskScheduled(m, taskId) ==
    ExactKey(taskId) \in DOMAIN m \/ ReminderKey(taskId) \in DOMAIN m

\* getScheduledNotificationCount(), notifications.ts:263-265
getScheduledNotificationCount(m) == Cardinality(DOMAIN m)

\* checkPermission that keeps a flag that is already true.
checkPermission_sticky(flag, platform) ==
    IF platform = "unsupported" THEN flag ELSE flag \/ platform = "granted"

\* checkPermission(), notifications.ts:11-25
checkPermission(flag, platform) ==
    IF platform = "unsupported" THEN flag ELSE platform = "granted"

\* requestPermission that prompts again when the permission is denied.
requestPermission_promptWhenDenied(flag, platform) ==
    IF platform = "unsupported"
    THEN [returns |-> "false", flag |-> flag, prompts |-> FALSE]
    ELSE IF platform = "granted"
    THEN [returns |-> "true", flag |-> TRUE, prompts |-> FALSE]
    ELSE [returns |-> "pending", flag |-> flag, prompts |-> TRUE]

\* What requestPermission() does before it awaits, notifications.ts:33-56:
\* the value it resolves to at once ("pending" when it prompts first), the
\* flag it leaves, and whether it opens the platform's permission prompt.
requestPermission(flag, platform) ==
    IF platform = "unsupported"
    THEN [returns |-> "false", flag |-> flag, prompts |-> FALSE]
    ELSE IF platform = "granted"
    THEN [returns |-> "true", flag |-> TRUE, prompts |-> FALSE]
    ELSE IF platform = "denied"
    THEN [returns |-> "false", flag |-> flag, prompts |-> FALSE]
    ELSE [returns |-> "pending", flag |-> flag, prompts |-> TRUE]

\* requestPermissionSettles that trusts the answer without reading the
\* platform permission again, and takes anything but denied as granted.
requestPermissionSettles_notDenied(flag, permission, rejected) ==
    IF rejected
    THEN [returns |-> "false", flag |-> flag]
    ELSE [returns |-> IF permission # "denied" THEN "true" ELSE "false",
          flag |-> permission # "denied"]

\* What requestPermission() does once Notification.requestPermission() has
\* settled, notifications.ts:56-66. `permission` is the value it resolved
\* to, which is then the platform permission; `rejected` says the promise
\* was rejected instead.
requestPermissionSettles(flag, permission, rejected) ==
    IF rejected
    THEN [returns |-> "false", flag |-> flag]
    ELSE LET read == checkPermission(permission = "granted", permission)
         IN [returns |-> IF read THEN "true" ELSE "false", flag |-> read]

\* What the audio platform does when the tone is created.
Audio == {"ok", "fails"}
\* What `new Notification(...)` does.
Constructed == {"ok", "throws"}

\* playNotificationSound that lets the audio error escape.
playNotificationSound_noCatch(audio) ==
    IF audio = "fails" THEN "threw" ELSE "played"

\* playNotificationSound(), notifications.ts:271-289: the whole body is
\* inside try/catch.
playNotificationSound(audio) ==
    IF audio = "fails" THEN "caught" ELSE "played"

\* testDesktopNotification that does not stop at a denied permission.
testDesktopNotification_ignoreDenied(flag, platform, constructed, audio) ==
    IF platform = "unsupported"
    THEN [returns |-> "threw", flag |-> flag, alerts |-> 0, prompts |-> FALSE]
    ELSE IF platform = "default"
    THEN [returns |-> "false", flag |-> flag, alerts |-> 0, prompts |-> TRUE]
    ELSE IF constructed = "throws"
    THEN [returns |-> "false", flag |-> flag, alerts |-> 0, prompts |-> FALSE]
    ELSE IF playNotificationSound(audio) = "threw"
    THEN [returns |-> "false", flag |-> flag, alerts |-> 1, prompts |-> FALSE]
    ELSE [returns |-> "true", flag |-> TRUE, alerts |-> 1, prompts |-> FALSE]

\* testDesktopNotification(), notifications.ts:184-261: what it returns
\* ("threw" when an error escapes to the caller), the flag it leaves, the
\* number of test alerts it creates and whether it opens the permission
\* prompt. Line 186 reads Notification.permission before the support test
\* and outside the try block.
testDesktopNotification(flag, platform, constructed, audio) ==
    IF platform = "unsupported"
    THEN [returns |-> "threw", flag |-> flag, alerts |-> 0, prompts |-> FALSE]
    ELSE IF platform = "denied"
    THEN [returns |-> "false", flag |-> flag, alerts |-> 0, prompts |-> FALSE]
    ELSE IF platform = "default"
    THEN [returns |-> "false", flag |-> flag, alerts |-> 0, prompts |-> TRUE]
    ELSE IF constructed = "throws"
    THEN [returns |-> "false", flag |-> flag, alerts |-> 0, prompts |-> FALSE]
    ELSE IF playNotificationSound(audio) = "threw"
    THEN [returns |-> "false", flag |-> flag, alerts |-> 1, prompts |-> FALSE]
    ELSE [returns |-> "true", flag |-> TRUE, alerts |-> 1, prompts |-> FALSE]

\* ------------------------------------------------------------------ state
\* lastOp: the operation, the task id and due time it was given, what it
\* did with an alert or returned, what it found (of the alerts that were
\* pending, or of the permission flag), and what the audio platform did if
\* a tone was played.
Op(name, taskId, date, outcome, found) ==
    [op |-> name, id |-> taskId, date |-> date, outcome |-> outcome,
     found |-> found, sound |-> ""]
Sounded(op, audio) == [op EXCEPT !.sound = audio]
\* The permission flag as an operation found it.
FlagWas(flag) == IF flag THEN "flagTrue" ELSE "flagFalse"

\* What clearNotification(taskId) finds in svc: pending timers to cancel,
\* only entries of timers that ran, or nothing.
Found(svc, taskId) ==
    IF clearNotification(svc, taskId).timers # svc.timers THEN "pending"
    ELSE IF clearNotification(svc, taskId).map # svc.map THEN "stale"
    ELSE "nothing"

\* ============================================================= the server
\* The HTTP routes (server/routes.ts), the storage behind them
\* (server/storage.ts) and the tasks table (shared/schema.ts), with the rows
\* in full.  A JSON body is a record that carries every field the model
\* sends; a field the request leaves out holds Absent (NoId for id).
Absent == "absent"
NoId == 0
\* Number.NaN, and the getTime() of an Invalid Date
NaN == -1

\* new Date(str): the time in minutes for the date strings of the model,
\* an Invalid Date for every other string.
newDate(str) ==
    IF str = "00:01" THEN 1
    ELSE IF str = "00:03" THEN 3
    ELSE NaN

\* parseInt(str): the leading decimal digits of the string, NaN when it
\* has none.
parseInt(str) ==
    IF str \in {"1", "1abc"} THEN 1
    ELSE IF str = "2" THEN 2
    ELSE NaN

\* Request inputs the model draws from.
Titles == {Absent, "", "a"}
DateStrings == {Absent, "not-a-date", "00:01", "00:03"}
Priorities == {Absent, "", "urgent"}
Categories == {Absent, "", "work"}
Paths == {"1", "2", "1abc", "abc"}

Body(title, date, priority, category, completed, id) ==
    [title |-> title, scheduledDate |-> date, priority |-> priority,
     category |-> category, completed |-> completed, id |-> id]
NoBody == Body(Absent, Absent, Absent, Absent, Absent, NoId)
\* POST bodies: around a complete body, the title, the date, and the
\* priority and category are varied in turn.
PostBodies ==
    {Body(t, "00:01", Absent, Absent, Absent, NoId) : t \in Titles}
        \cup {Body("a", d, Absent, Absent, Absent, NoId) : d \in DateStrings}
        \cup {Body("a", "00:03", p, Absent, Absent, NoId) : p \in Priorities}
        \cup {Body("a", "00:03", Absent, c, Absent, NoId) : c \in Categories}
\* A PATCH body carries one field: completed as the page sends it when a
\* task is toggled, or a title or an id.
PatchBodies ==
    {[NoBody EXCEPT !.completed = c] : c \in {"true", "false"}}
        \cup {[NoBody EXCEPT !.title = ""]}
        \cup {[NoBody EXCEPT !.id = i] : i \in 1 .. MaxSerial + 1}

\* insertTaskSchema.parse(body): the issues a ZodError would carry, and the
\* parsed data (transform and defaults applied) when there are none.
\* Keys the schema does not name are stripped.
insertTaskSchema_noMin(body) ==
    LET issues ==
            {f \in {"title", "scheduledDate"} : body[f] = Absent}
    IN  [success |-> issues = {},
         issues  |-> issues,
         data    |-> [title |-> body.title,
                      scheduledDate |-> newDate(body.scheduledDate),
                      priority |-> IF body.priority = Absent
                                   THEN "medium" ELSE body.priority,
                      category |-> IF body.category = Absent
                                   THEN "personal" ELSE body.category]]

insertTaskSchema(body) ==
    LET issues ==
            {f \in {"title", "scheduledDate"} : body[f] = Absent}
                \cup (IF body.title = "" THEN {"title"} ELSE {})
    IN  [success |-> issues = {},
         issues  |-> issues,
         data    |-> [title |-> body.title,
                      scheduledDate |-> newDate(body.scheduledDate),
                      priority |-> IF body.priority = Absent
                                   THEN "medium" ELSE body.priority,
                      category |-> IF body.category = Absent
                                   THEN "personal" ELSE body.category]]

\* a || b on strings: the empty string is the only falsy one
OrElse(a, b) == IF a = "" THEN b ELSE a

Ids(rows) == {r.id : r \in rows}

\* What a storage call gives its caller: it threw or it returned, the rows
\* of the table and the sequence afterwards, and the rows it returned.
Threw(rows, seq) ==
    [threw |-> TRUE, rows |-> rows, serial |-> seq, returning |-> <<>>]
Returned(rows, seq, returning) ==
    [threw |-> FALSE, rows |-> rows, serial |-> seq, returning |-> returning]

\* DatabaseStorage.createTask, called at time t.  The insert fails when the database cannot
\* be reached, when scheduledDate is an Invalid Date (it has no timestamp
\* value) and when the id the sequence hands out is already the primary key
\* of a row; only in the last case has the sequence moved on.
storageCreateTask_asGiven(rows, seq, insertTask, t, up) ==
    LET task == [id |-> seq,
                 title |-> insertTask.title,
                 scheduledDate |-> insertTask.scheduledDate,
                 priority |-> insertTask.priority,
                 category |-> insertTask.category,
                 completed |-> FALSE,
                 createdAt |-> t]
    IN  IF ~up \/ insertTask.scheduledDate = NaN THEN Threw(rows, seq)
        ELSE IF seq \in Ids(rows) THEN Threw(rows, seq + 1)
        ELSE Returned(rows \cup {task}, seq + 1, <<task>>)

storageCreateTask(rows, seq, insertTask, t, up) ==
    LET task == [id |-> seq,
                 title |-> insertTask.title,
                 scheduledDate |-> insertTask.scheduledDate,
                 priority |-> OrElse(insertTask.priority, "medium"),
                 category |-> OrElse(insertTask.category, "personal"),
                 completed |-> FALSE,
                 createdAt |-> t]
    IN  IF ~up \/ insertTask.scheduledDate = NaN THEN Threw(rows, seq)
        ELSE IF seq \in Ids(rows) THEN Threw(rows, seq + 1)
        ELSE Returned(rows \cup {task}, seq + 1, <<task>>)

\* .set(updates): the columns the body names take the body's values.
setColumns(row, updates) ==
    [id |-> IF updates.id = NoId THEN row.id ELSE updates.id,
     title |-> IF updates.title = Absent THEN row.title ELSE updates.title,
     scheduledDate |-> row.scheduledDate,
     priority |-> IF updates.priority = Absent
                  THEN row.priority ELSE updates.priority,
     category |-> IF updates.category = Absent
                  THEN row.category ELSE updates.category,
     completed |-> IF updates.completed = Absent
                   THEN row.completed ELSE updates.completed = "true",
     createdAt |-> row.createdAt]

\* DatabaseStorage.updateTask.  The update fails when the database cannot
\* be reached and when it would give two rows the same primary key.
storageUpdateTask(rows, seq, id, updates, up) ==
    LET matching == {r \in rows : r.id = id}
        others == rows \ matching
        updated == {setColumns(r, updates) : r \in matching}
    IN  IF ~up \/ Ids(updated) \cap Ids(others) # {} THEN Threw(rows, seq)
        ELSE IF matching = {} THEN Returned(rows, seq, <<>>)
        ELSE Returned(others \cup updated, seq,
                      <<CHOOSE r \in updated : TRUE>>)

\* DatabaseStorage.deleteTask
storageDeleteTask_always(rows, seq, id, up) ==
    LET matching == {r \in rows : r.id = id}
    IN  IF ~up THEN Threw(rows, seq)
        ELSE Returned(rows \ matching, seq, <<id>>)

storageDeleteTask(rows, seq, id, up) ==
    LET matching == {r \in rows : r.id = id}
    IN  IF ~up THEN Threw(rows, seq)
        ELSE IF matching = {} THEN Returned(rows, seq, <<>>)
        ELSE Returned(rows \ matching, seq, <<CHOOSE r \in matching : TRUE>>)

\* The orders in which a select without ORDER BY may return the rows.
Orders(rows) ==
    {list \in [1 .. Cardinality(rows) -> rows] :
        \A i, j \in 1 .. Cardinality(rows) : list[i] = list[j] => i = j}

\* Array.prototype.sort with the comparator of getTasks: a stable sort by
\* the difference of the two times.
insertByDate(sorted, row) ==
    LET k == Cardinality({i \in 1 .. Len(sorted) :
                            sorted[i].scheduledDate <= row.scheduledDate})
    IN  SubSeq(sorted, 1, k) \o <<row>> \o SubSeq(sorted, k + 1, Len(sorted))

RECURSIVE sortByDate(_)
sortByDate(list) ==
    IF list = <<>> THEN <<>>
    ELSE insertByDate(sortByDate(SubSeq(list, 1, Len(list) - 1)),
                      list[Len(list)])

\* DatabaseStorage.getTasks, the select returning the rows as tasksList
getTasks_unsorted(tasksList, up) ==
    IF ~up THEN Threw({}, 0) ELSE Returned({}, 0, tasksList)

getTasks(tasksList, up) ==
    IF ~up THEN Threw({}, 0) ELSE Returned({}, 0, sortByDate(tasksList))

\* What the server answered last: the request, the status, the error and
\* details of the JSON body or the tasks it carries, and whether the
\* handler called the storage.
Reply(method, path, body, status, error, details, json, called) ==
    [method |-> method, path |-> path, body |-> body, status |-> status,
     error |-> error, details |-> details, json |-> json, called |-> called]
NoReply == Reply("none", "", NoBody, 0, "", {}, <<>>, FALSE)

ServerStarts ==
    /\ db = {}
    /\ serial = 1
    /\ serverNow = 0
    /\ reply = NoReply

\* The state after `new NotificationService()`: the constructor reads the
\* platform permission once.
Init ==
    /\ now = 0
    /\ platformPermission \in Permissions
    /\ prompt = "none"
    /\ permissionGranted = checkPermission(FALSE, platformPermission)
    /\ scheduledNotifications = <<>>
    /\ timers = <<>>
    /\ nextHandle = 1
    /\ store = <<>>
    /\ nextId = 1
    /\ tasks = <<>>
    /\ hasNotificationPermission = permissionGranted
    /\ requests = {}
    /\ fetch = [status |-> "requested", data |-> <<>>]
    /\ lastOp = Op("init", 0, 0, "", "")
    /\ ServerStarts

Service == Svc(scheduledNotifications, timers, nextHandle)

\* The scheduler's state becomes svc.
Becomes(svc) ==
    /\ svc.next <= MaxTimers + 1
    /\ scheduledNotifications' = svc.map
    /\ timers' = svc.timers
    /\ nextHandle' = svc.next

\* ---------------------------------------------------------------- actions
\* A call of scheduleNotification(task) by any caller.
ScheduleNotification(task) ==
    /\ Becomes(scheduleNotification(Service, permissionGranted, task, now))
    /\ lastOp' = Op("scheduleNotification", task.id, task.scheduledDate, "",
                    Found(Service, task.id))
    /\ UNCHANGED <<now, platformPermission, prompt, permissionGranted>>
    /\ UNCHANGED pageVars
    /\ UNCHANGED serverVars

\* A call of clearNotification(taskId) by any caller.
ClearNotification(taskId) ==
    /\ Becomes(clearNotification(Service, taskId))
    /\ lastOp' = Op("clearNotification", taskId, 0, "",
                    Found(Service, taskId))
    /\ UNCHANGED <<now, platformPermission, prompt, permissionGranted>>
    /\ UNCHANGED pageVars
    /\ UNCHANGED serverVars

\* A call of clearAllNotifications().
ClearAllNotifications ==
    /\ Becomes(clearAllNotifications(Service))
    /\ lastOp' = Op("clearAllNotifications", 0, 0, "",
                    IF timers # <<>> THEN "pending"
                    ELSE IF scheduledNotifications # <<>> THEN "stale"
                    ELSE "nothing")
    /\ UNCHANGED <<now, platformPermission, prompt, permissionGranted>>
    /\ UNCHANGED pageVars
    /\ UNCHANGED serverVars

\* A call of refreshPermissionStatus(), notifications.ts:28-31
RefreshPermissionStatus ==
    /\ permissionGranted' = checkPermission(permissionGranted,
                                            platformPermission)
    /\ lastOp' = Op("refreshPermissionStatus", 0, 0,
                    IF permissionGranted' THEN "true" ELSE "false",
                    FlagWas(permissionGranted))
    /\ UNCHANGED <<now, platformPermission, prompt, scheduledNotifications,
                   timers, nextHandle>>
    /\ UNCHANGED pageVars
    /\ UNCHANGED serverVars

\* A call of requestPermission() up to its first await,
\* notifications.ts:33-56. One permission prompt is open at a time.
RequestPermission ==
    /\ prompt = "none"
    /\ LET r == requestPermission(permissionGranted, platformPermission)
       IN /\ permissionGranted' = r.flag
          /\ prompt' = IF r.prompts THEN "requestPermission" ELSE "none"
          /\ lastOp' = Op("requestPermission", 0, 0, r.returns,
                          FlagWas(permissionGranted))
    /\ UNCHANGED <<now, platformPermission, scheduledNotifications, timers,
                   nextHandle>>
    /\ UNCHANGED pageVars
    /\ UNCHANGED serverVars

\* The user answers the prompt of requestPermission() (grants, denies, or
\* dismisses it, which leaves the permission at default), or the platform
\* rejects the request; requestPermission() resumes, notifications.ts:56-66
RequestPermissionSettles ==
    /\ prompt = "requestPermission"
    /\ \E answer \in {"granted", "denied", "default"}, rejected \in BOOLEAN :
          LET r == requestPermissionSettles(permissionGranted, answer,
                                            rejected)
          IN /\ rejected => answer = platformPermission
             /\ platformPermission' = answer
             /\ permissionGranted' = r.flag
             /\ lastOp' = Op("requestPermissionSettles", 0, 0, r.returns,
                             FlagWas(permissionGranted))
    /\ prompt' = "none"
    /\ UNCHANGED <<now, scheduledNotifications, timers, nextHandle>>
    /\ UNCHANGED pageVars
    /\ UNCHANGED serverVars

\* A call of testDesktopNotification(), notifications.ts:184-261
TestDesktopNotification ==
    /\ prompt = "none"
    /\ \E constructed \in Constructed, audio \in Audio :
          LET r == testDesktopNotification(permissionGranted,
                                           platformPermission, constructed,
                                           audio)
          IN /\ permissionGranted' = r.flag
             /\ prompt' = IF r.prompts THEN "testDesktopNotification"
                          ELSE "none"
             /\ lastOp' = Sounded(Op("testDesktopNotification", 0, 0,
                                     r.returns, FlagWas(permissionGranted)),
                                  IF r.alerts = 1 THEN audio ELSE "")
    /\ UNCHANGED <<now, platformPermission, scheduledNotifications, timers,
                   nextHandle>>
    /\ UNCHANGED pageVars
    /\ UNCHANGED serverVars

\* The user answers the prompt of testDesktopNotification(); the `then`
\* callback runs testDesktopNotification() again when the answer is
\* granted, notifications.ts:204-211
TestPromptSettles ==
    /\ prompt = "testDesktopNotification"
    /\ \E answer \in {"granted", "denied", "default"},
          constructed \in Constructed, audio \in Audio :
          LET r == testDesktopNotification(permissionGranted, answer,
                                           constructed, audio)
          IN /\ platformPermission' = answer
             /\ permissionGranted' = IF answer = "granted" THEN r.flag
                                     ELSE permissionGranted
             /\ lastOp' =
                   IF answer = "granted"
                   THEN Sounded(Op("testPromptSettles", 0, 0, r.returns,
                                   FlagWas(permissionGranted)),
                                IF r.alerts = 1 THEN audio ELSE "")
                   ELSE Op("testPromptSettles", 0, 0, "notRerun",
                           FlagWas(permissionGranted))
    /\ prompt' = "none"
    /\ UNCHANGED <<now, scheduledNotifications, timers, nextHandle>>
    /\ UNCHANGED pageVars
    /\ UNCHANGED serverVars

\* The user changes the site's notification permission in the browser
\* settings; the application is not told. While a permission prompt is
\* open the permission is changed by answering it.
PlatformPermissionChanges ==
    /\ platformPermission # "unsupported"
    /\ prompt = "none"
    /\ \E p \in {"default", "granted", "denied"} :
          /\ p # platformPermission
          /\ platformPermission' = p
    /\ lastOp' = Op("platformPermissionChanges", 0, 0, "", "")
    /\ UNCHANGED <<now, prompt, permissionGranted, scheduledNotifications,
                   timers, nextHandle>>
    /\ UNCHANGED pageVars
    /\ UNCHANGED serverVars

\* A timer may run when its delay has elapsed. Timers that are due in the
\* same minute run in any order, except the two of one scheduleNotification
\* call: the reminder was set first and with the shorter delay, so when
\* both are due it runs first.
MayRun(h) ==
    /\ h \in DOMAIN timers
    /\ timers[h].fireAt <= now
    /\ (timers[h].kind = "exact" /\ timers[h].reminder = "pending")
          => (h - 1 \in DOMAIN timers => timers[h - 1].fireAt > now)

\* Callbacks that show the alert whatever the flag is.
Outcomes_unguarded(granted) == {"shown", "threw"}

\* What showReminderNotification / showExactTimeNotification do with the
\* alert, notifications.ts:104-154: nothing when the flag is false,
\* otherwise `new Notification(...)`, which the platform may reject by
\* throwing.
Outcomes(granted) == IF granted THEN {"shown", "threw"} ELSE {"suppressed"}

\* The timer h has run: it is no longer pending, and the due-now timer of
\* the same scheduleNotification call, if still pending, knows it.
ran(tm, h) ==
    [g \in DOMAIN tm \ {h} |->
        IF tm[h].kind = "reminder" /\ g = h + 1 /\ tm[g].kind = "exact"
           /\ tm[g].reminder = "pending"
        THEN [tm[g] EXCEPT !.reminder = "fired"]
        ELSE tm[g]]

\* What a show...Notification call does in the end: the tone is played
\* after the alert is constructed, and an error of the tone that escaped
\* would end the call like an error of the constructor.
shows(outcome, audio) ==
    IF outcome = "shown" /\ playNotificationSound(audio) = "threw"
    THEN "threw" ELSE outcome
\* The tone is tried only when the alert was constructed.
Tried(outcome, audio) == IF outcome = "shown" THEN audio ELSE ""

\* The reminder callback, notifications.ts:89-91
ReminderFires(h) ==
    /\ MayRun(h)
    /\ timers[h].kind = "reminder"
    /\ timers' = ran(timers, h)
    /\ \E outcome \in Outcomes(permissionGranted), audio \in Audio :
          lastOp' = Sounded(Op("reminderFires", timers[h].taskId, 0,
                               shows(outcome, audio), ""),
                            Tried(outcome, audio))
    /\ UNCHANGED <<now, platformPermission, prompt, permissionGranted,
                   scheduledNotifications, nextHandle>>
    /\ UNCHANGED pageVars
    /\ UNCHANGED serverVars

\* The due-now callback, notifications.ts:96-99: the entry is deleted after
\* showExactTimeNotification returns, so not when it throws.
exactCallback(m, taskId, outcome) ==
    IF outcome = "threw" THEN m ELSE MapDelete(m, ExactKey(taskId))

ExactTimeFires(h) ==
    /\ MayRun(h)
    /\ timers[h].kind = "exact"
    /\ timers' = ran(timers, h)
    /\ \E outcome \in Outcomes(permissionGranted), audio \in Audio :
          /\ scheduledNotifications' =
                 exactCallback(scheduledNotifications, timers[h].taskId,
                               shows(outcome, audio))
          /\ lastOp' = Sounded(Op("exactTimeFires", timers[h].taskId, 0,
                                  shows(outcome, audio), timers[h].reminder),
                               Tried(outcome, audio))
    /\ UNCHANGED <<now, platformPermission, prompt, permissionGranted,
                   nextHandle>>
    /\ UNCHANGED pageVars
    /\ UNCHANGED serverVars

\* A minute passes; a timer whose delay has elapsed runs first.
Tick ==
    /\ now < MaxTime
    /\ \A h \in DOMAIN timers : timers[h].fireAt > now
    /\ now' = now + 1
    /\ lastOp' = Op("tick", 0, 0, "", "")
    /\ UNCHANGED <<platformPermission, prompt, permissionGranted,
                   scheduledNotifications, timers, nextHandle>>
    /\ UNCHANGED pageVars
    /\ UNCHANGED serverVars

Next ==
    \/ \E task \in IncompleteTasks : ScheduleNotification(task)
    \/ \E taskId \in TaskIds : ClearNotification(taskId)
    \/ ClearAllNotifications
    \/ RefreshPermissionStatus
    \/ RequestPermission
    \/ RequestPermissionSettles
    \/ TestDesktopNotification
    \/ TestPromptSettles
    \/ PlatformPermissionChanges
    \/ \E h \in DOMAIN timers : ReminderFires(h)
    \/ \E h \in DOMAIN timers : ExactTimeFires(h)
    \/ Tick

\* ------------------------------------------------------------ the store
\* A row of the tasks table, without its id.
Row(date, completed) == [scheduledDate |-> date, completed |-> completed]
\* The Task object the client gets for row id of rows.
TaskOf(rows, id) ==
    [id |-> id, scheduledDate |-> rows[id].scheduledDate,
     completed |-> rows[id].completed]

\* DatabaseStorage.createTask, notifications.ts:307-318
createTask(rows, id, date) == MapSet(rows, id, Row(date, FALSE))
\* DatabaseStorage.updateTask, notifications.ts:327-334
updateTask(rows, id, completed) ==
    IF id \in DOMAIN rows
    THEN [rows EXCEPT ![id].completed = completed]
    ELSE rows
\* DatabaseStorage.deleteTask, notifications.ts:336-342
deleteTaskRow(rows, id) == MapDelete(rows, id)

Request(kind, id, date, completed, status) ==
    [kind |-> kind, id |-> id, date |-> date, completed |-> completed,
     status |-> status]

\* queryClient.invalidateQueries: the task list is fetched again, and a
\* fetch still in flight is dropped.
Invalidated == [status |-> "requested", data |-> <<>>]
Idle == [status |-> "idle", data |-> <<>>]

\* ------------------------------------------------------------- the page
\* The first incomplete task of the list, which the server sorts by
\* scheduledDate.
FirstOf(rows, ids) ==
    CHOOSE i \in ids :
        \A j \in ids :
            \/ rows[i].scheduledDate < rows[j].scheduledDate
            \/ rows[i].scheduledDate = rows[j].scheduledDate /\ i <= j

\* tasks.filter(task => !task.completed).forEach(scheduleNotification),
\* home.tsx:197-199
RECURSIVE scheduleEach(_, _, _, _, _)
scheduleEach(svc, granted, rows, ids, t) ==
    IF ids = {} THEN svc
    ELSE LET i == FirstOf(rows, ids)
         IN scheduleEach(scheduleNotification(svc, granted,
                                              TaskOf(rows, i), t),
                         granted, rows, ids \ {i}, t)

\* useEffect(..., [tasks, hasNotificationPermission]), home.tsx:195-201
rescheduleEffect(svc, granted, pagePermission, rows, t) ==
    IF pagePermission
    THEN scheduleEach(svc, granted, rows,
                      {i \in DOMAIN rows : ~rows[i].completed}, t)
    ELSE svc

\* mutation.mutate(...): the request is sent whatever state the
\* notifications are in.
mutate_whenGranted(reqs, req) ==
    IF permissionGranted THEN reqs \cup {req} ELSE reqs

mutate(reqs, req) == reqs \cup {req}

\* onSubmit, home.tsx:103-105: POST /api/tasks is sent.
SubmitTask(date) ==
    /\ nextId + Cardinality({r \in requests : r.kind = "create"
                                              /\ r.status = "sent"})
          <= NumTasks
    /\ Cardinality(requests) < MaxRequests
    /\ requests' = mutate(requests, Request("create", 0, date, FALSE, "sent"))
    /\ lastOp' = Op("onSubmit", 0, date, "", "")
    /\ UNCHANGED serverVars
    /\ UNCHANGED <<now, platformPermission, prompt, permissionGranted,
                   scheduledNotifications, timers, nextHandle, store, nextId,
                   tasks, hasNotificationPermission, fetch>>

\* toggleTask(task), home.tsx:107-118
ToggleTask(id) ==
    /\ id \in DOMAIN tasks
    /\ Cardinality(requests) < MaxRequests
    /\ requests' = mutate(requests, Request("update", id, 0,
                                            ~tasks[id].completed, "sent"))
    /\ Becomes(IF ~tasks[id].completed
               THEN clearNotification(Service, id)
               ELSE scheduleNotification(Service, permissionGranted,
                                         TaskOf(tasks, id), now))
    /\ lastOp' = Op("toggleTask", id, 0,
                    IF tasks[id].completed THEN "incomplete" ELSE "completed",
                    Found(Service, id))
    /\ UNCHANGED serverVars
    /\ UNCHANGED <<now, platformPermission, prompt, permissionGranted, store,
                   nextId, tasks, hasNotificationPermission, fetch>>

\* deleteTask(id), home.tsx:120-123
DeleteTask(id) ==
    /\ id \in DOMAIN tasks
    /\ Cardinality(requests) < MaxRequests
    /\ requests' = mutate(requests, Request("delete", id, 0, FALSE, "sent"))
    /\ Becomes(clearNotification(Service, id))
    /\ lastOp' = Op("deleteTask", id, 0, "", "")
    /\ UNCHANGED serverVars
    /\ UNCHANGED <<now, platformPermission, prompt, permissionGranted, store,
                   nextId, tasks, hasNotificationPermission, fetch>>

\* The server handles a request, home.tsx:776-826: the store operation
\* succeeds, or finds no row (404), or fails (500).
ServerHandles(req) ==
    /\ req \in requests
    /\ req.status = "sent"
    /\ \E ok \in BOOLEAN :
          LET found == req.kind = "create" \/ req.id \in DOMAIN store
              done == ok /\ found
              id == IF req.kind = "create" THEN nextId ELSE req.id
          IN /\ store' = IF ~done THEN store
                         ELSE IF req.kind = "create"
                              THEN createTask(store, nextId, req.date)
                         ELSE IF req.kind = "update"
                              THEN updateTask(store, req.id, req.completed)
                         ELSE deleteTaskRow(store, req.id)
             /\ nextId' = IF done /\ req.kind = "create"
                          THEN nextId + 1 ELSE nextId
             /\ requests' = (requests \ {req}) \cup
                    {Request(req.kind, id, req.date, req.completed,
                             IF done THEN "ok" ELSE "error")}
    /\ lastOp' = Op("serverHandles", req.id, 0, req.kind, "")
    /\ UNCHANGED serverVars
    /\ UNCHANGED <<now, platformPermission, prompt, permissionGranted,
                   scheduledNotifications, timers, nextHandle, tasks,
                   hasNotificationPermission, fetch>>

\* The toast a mutation shows when it settles, home.tsx:62-100: create
\* has onSuccess and onError toasts, delete an onSuccess toast only, and
\* update none.
notice(req) ==
    IF req.kind = "create"
    THEN IF req.status = "ok" THEN "Task created" ELSE "Error"
    ELSE IF req.kind = "delete" /\ req.status = "ok" THEN "Task deleted"
    ELSE "none"

\* How a mutation ended, for lastOp.
settled(req) ==
    IF req.status = "ok" THEN req.kind
    ELSE IF req.kind = "create" THEN "createFailed"
    ELSE IF req.kind = "update" THEN "updateFailed"
    ELSE "deleteFailed"

\* The mutation callbacks, home.tsx:62-77, 85-87, 94-100
MutationSettles(req) ==
    /\ req \in requests
    /\ req.status # "sent"
    /\ requests' = requests \ {req}
    /\ fetch' = IF req.status = "ok" THEN Invalidated ELSE fetch
    /\ Becomes(IF req.status = "ok" /\ req.kind = "create"
               THEN scheduleNotification(
                        Service, permissionGranted,
                        [id |-> req.id, scheduledDate |-> req.date,
                         completed |-> FALSE], now)
               ELSE Service)
    /\ lastOp' = Op("mutationSettles", req.id, 0, settled(req), notice(req))
    /\ UNCHANGED serverVars
    /\ UNCHANGED <<now, platformPermission, prompt, permissionGranted, store,
                   nextId, tasks, hasNotificationPermission>>

\* GET /api/tasks is answered from the store, home.tsx:767-774, or fails.
ServerHandlesFetch ==
    /\ fetch.status = "requested"
    /\ \E ok \in BOOLEAN :
          fetch' = IF ok THEN [status |-> "responded", data |-> store]
                   ELSE Idle
    /\ lastOp' = Op("serverHandlesFetch", 0, 0, "", "")
    /\ UNCHANGED serverVars
    /\ UNCHANGED <<now, platformPermission, prompt, permissionGranted,
                   scheduledNotifications, timers, nextHandle, store, nextId,
                   tasks, hasNotificationPermission, requests>>

\* The task list arrives at the page, home.tsx:53-55; a list that differs
\* from the one held runs the effect of home.tsx:195-201.
TasksArrive ==
    /\ fetch.status = "responded"
    /\ tasks' = fetch.data
    /\ fetch' = Idle
    /\ Becomes(IF fetch.data # tasks
               THEN rescheduleEffect(Service, permissionGranted,
                                     hasNotificationPermission, fetch.data,
                                     now)
               ELSE Service)
    /\ lastOp' = Op("tasksArrive", 0, 0, "", "")
    /\ UNCHANGED serverVars
    /\ UNCHANGED <<now, platformPermission, prompt, permissionGranted, store,
                   nextId, hasNotificationPermission, requests>>

AppNext ==
    \/ \E date \in Dates : SubmitTask(date)
    \/ \E id \in TaskIds : ToggleTask(id)
    \/ \E id \in TaskIds : DeleteTask(id)
    \/ \E req \in requests : ServerHandles(req)
    \/ \E req \in requests : MutationSettles(req)
    \/ ServerHandlesFetch
    \/ TasksArrive
    \/ \E h \in DOMAIN timers : ReminderFires(h)
    \/ \E h \in DOMAIN timers : ExactTimeFires(h)
    \/ Tick

\* The rows the tasks table may hold when the page is loaded: none, or a
\* task created earlier that is due just beyond the reminder lead.
InitialStores == {<<>>, createTask(<<>>, 1, ReminderLead + 1)}

\* The page is loaded: the service is constructed and the task list is
\* requested, home.tsx:37-55
AppInit ==
    /\ now = 0
    /\ platformPermission \in Permissions
    /\ prompt = "none"
    /\ permissionGranted = checkPermission(FALSE, platformPermission)
    /\ scheduledNotifications = <<>>
    /\ timers = <<>>
    /\ nextHandle = 1
    /\ store \in InitialStores
    /\ nextId = Cardinality(DOMAIN store) + 1
    /\ tasks = <<>>
    /\ hasNotificationPermission = permissionGranted
    /\ requests = {}
    /\ fetch = [status |-> "requested", data |-> <<>>]
    /\ lastOp = Op("init", 0, 0, "", "")
    /\ ServerStarts

AppSpec == AppInit /\ [][AppNext]_vars

Spec == Init /\ [][Next]_vars

\* ---------------------------------------------------------------- routes
clientVars == <<now, platformPermission, prompt, permissionGranted,
                scheduledNotifications, timers, nextHandle, pageVars,
                lastOp>>

\* app.post("/api/tasks"), routes.ts
PostTask(body, up) ==
    LET parsed == insertTaskSchema(body)
        result == storageCreateTask(db, serial, parsed.data, serverNow, up)
    IN  /\ serial <= MaxSerial
        /\ IF ~parsed.success
           THEN /\ reply' = Reply("POST", "", body, 400, "Invalid task data",
                                  parsed.issues, <<>>, FALSE)
                /\ UNCHANGED <<db, serial>>
           ELSE /\ db' = result.rows
                /\ serial' = result.serial
                /\ reply' = IF result.threw
                            THEN Reply("POST", "", body, 500,
                                       "Failed to create task", {}, <<>>, TRUE)
                            ELSE Reply("POST", "", body, 201, "", {},
                                       result.returning, TRUE)
        \* each row is inserted at a later time than the one before
        /\ serverNow' = IF db' = db THEN serverNow ELSE serverNow + 1
        /\ UNCHANGED clientVars

\* app.patch("/api/tasks/:id"), routes.ts
PatchTask(path, body, up) ==
    LET result == storageUpdateTask(db, serial, parseInt(path), body, up)
    IN  /\ db' = result.rows
        /\ reply' = IF result.threw
                    THEN Reply("PATCH", path, body, 500,
                               "Failed to update task", {}, <<>>, TRUE)
                    ELSE IF result.returning = <<>>
                    THEN Reply("PATCH", path, body, 404, "Task not found",
                               {}, <<>>, TRUE)
                    ELSE Reply("PATCH", path, body, 200, "", {},
                               result.returning, TRUE)
        /\ UNCHANGED <<serial, serverNow, clientVars>>

\* app.delete("/api/tasks/:id"), routes.ts
DeleteTaskById(path, up) ==
    LET result == storageDeleteTask(db, serial, parseInt(path), up)
    IN  /\ db' = result.rows
        /\ reply' = IF result.threw
                    THEN Reply("DELETE", path, NoBody, 500,
                               "Failed to delete task", {}, <<>>, TRUE)
                    ELSE IF result.returning = <<>>
                    THEN Reply("DELETE", path, NoBody, 404, "Task not found",
                               {}, <<>>, TRUE)
                    ELSE Reply("DELETE", path, NoBody, 204, "", {}, <<>>,
                               TRUE)
        /\ UNCHANGED <<serial, serverNow, clientVars>>

\* app.get("/api/tasks"), routes.ts
GetTasks(tasksList, up) ==
    LET result == getTasks(tasksList, up)
    IN  /\ reply' = IF result.threw
                    THEN Reply("GET", "", NoBody, 500,
                               "Failed to fetch tasks", {}, <<>>, TRUE)
                    ELSE Reply("GET", "", NoBody, 200, "", {},
                               result.returning, TRUE)
        /\ UNCHANGED <<db, serial, serverNow, clientVars>>

ServerNext ==
    \/ \E body \in PostBodies, up \in BOOLEAN : PostTask(body, up)
    \/ \E path \in Paths, body \in PatchBodies, up \in BOOLEAN :
          PatchTask(path, body, up)
    \/ \E path \in Paths, up \in BOOLEAN : DeleteTaskById(path, up)
    \/ \E tasksList \in Orders(db), up \in BOOLEAN : GetTasks(tasksList, up)

\* The scheduler and the permission flag on a platform that lets time pass
\* and runs every timer whose delay has elapsed.
LiveNext ==
    \/ \E task \in IncompleteTasks : ScheduleNotification(task)
    \/ \E taskId \in TaskIds : ClearNotification(taskId)
    \/ ClearAllNotifications
    \/ RefreshPermissionStatus
    \/ PlatformPermissionChanges
    \/ \E h \in DOMAIN timers : ReminderFires(h)
    \/ \E h \in DOMAIN timers : ExactTimeFires(h)
    \/ Tick

LiveSpec ==
    /\ Init
    /\ [][LiveNext]_vars
    /\ WF_vars(Tick)
    /\ WF_vars(\E h \in DOMAIN timers : ReminderFires(h))
    /\ WF_vars(\E h \in DOMAIN timers : ExactTimeFires(h))

\* The scheduler called for tasks with the ids 1 and 11.
FrameNext ==
    \/ \E task \in PrefixTasks : ScheduleNotification(task)
    \/ \E taskId \in PrefixIds : ClearNotification(taskId)
    \/ \E h \in DOMAIN timers : ReminderFires(h)
    \/ \E h \in DOMAIN timers : ExactTimeFires(h)
    \/ Tick

FrameSpec == Init /\ [][FrameNext]_vars

\* The server starts with an empty table; no page is open.
ServerInit == Init /\ platformPermission = "default"

ServerSpec == ServerInit /\ [][ServerNext]_vars

\* ================================================================ claims
\* The pending timers of task taskId, of one kind and of both.
LiveTimers(taskId, kind) ==
    {h \in DOMAIN timers : timers[h].taskId = taskId /\ timers[h].kind = kind}
AllLiveTimers(taskId) == {h \in DOMAIN timers : timers[h].taskId = taskId}
\* Key k holds the handle of a pending timer of that task and kind.
PendingUnder(taskId, kind) ==
    LET k == IF kind = "exact" THEN ExactKey(taskId) ELSE ReminderKey(taskId)
    IN /\ k \in DOMAIN scheduledNotifications
       /\ scheduledNotifications[k] \in LiveTimers(taskId, kind)
\* scheduleNotification has just returned, and the flag was granted.
JustScheduled == lastOp.op = "scheduleNotification" /\ permissionGranted

\* C1: with the permission flag granted, scheduleNotification of a task due
\* more than 5 minutes from now leaves exactly two pending alerts for it,
\* one under the reminder key and one under the task id key.
C1_TwoAlertsWhenFarAhead ==
    (JustScheduled /\ lastOp.date - now > ReminderLead)
        => /\ PendingUnder(lastOp.id, "reminder")
           /\ PendingUnder(lastOp.id, "exact")
           /\ Cardinality(AllLiveTimers(lastOp.id)) = 2

C1_Witness ==
    /\ JustScheduled
    /\ lastOp.date - now > ReminderLead
    /\ Cardinality(AllLiveTimers(lastOp.id)) = 2

\* C2: with the permission flag granted, scheduleNotification of a task due
\* in 0 to 5 minutes (both included) leaves exactly one pending alert for
\* it, the due-now alert, and no entry under the reminder key.
C2_OneAlertWhenDueSoon ==
    (JustScheduled /\ lastOp.date - now >= 0
                   /\ lastOp.date - now <= ReminderLead)
        => /\ PendingUnder(lastOp.id, "exact")
           /\ ReminderKey(lastOp.id) \notin DOMAIN scheduledNotifications
           /\ Cardinality(AllLiveTimers(lastOp.id)) = 1

\* The boundary case: due in exactly 5 minutes, with alerts replaced.
C2_Witness ==
    /\ JustScheduled
    /\ lastOp.date - now = ReminderLead
    /\ lastOp.found = "pending"
    /\ PendingUnder(lastOp.id, "exact")

\* C3 as stated: after scheduleNotification of a task whose due time is
\* past, the task has no mapping entry and no pending timer, whatever was
\* scheduled for it before and whatever the permission flag.
C3_Original ==
    (lastOp.op = "scheduleNotification" /\ lastOp.date - now < 0)
        => /\ ~isTaskScheduled(scheduledNotifications, lastOp.id)
           /\ AllLiveTimers(lastOp.id) = {}

\* C3 amended: with the permission flag granted, after scheduleNotification
\* of a task whose due time is past, the task has no mapping entry and no
\* pending timer, whatever was scheduled for it before.
C3_NoAlertsWhenPastDue ==
    (JustScheduled /\ lastOp.date - now < 0)
        => /\ ~isTaskScheduled(scheduledNotifications, lastOp.id)
           /\ AllLiveTimers(lastOp.id) = {}

\* A past-due call that found pending alerts of the task.
C3_Witness ==
    /\ JustScheduled
    /\ lastOp.date - now < 0
    /\ lastOp.found = "pending"

\* C4: in every reachable state each task has at most one pending timer of
\* each kind, so never more than two pending alerts.
C4_AtMostOneTimerPerKind ==
    \A taskId \in TaskIds :
        /\ Cardinality(LiveTimers(taskId, "reminder")) <= 1
        /\ Cardinality(LiveTimers(taskId, "exact")) <= 1

\* A task that had pending alerts has been scheduled again.
C4_Witness ==
    /\ JustScheduled
    /\ lastOp.found = "pending"
    /\ AllLiveTimers(lastOp.id) # {}

\* C5: right after clearNotification(id), isTaskScheduled(id) is false,
\* whatever was scheduled before.
C5_ClearedIsNotScheduled ==
    lastOp.op = "clearNotification"
        => ~isTaskScheduled(scheduledNotifications, lastOp.id)

\* clearNotification that found pending alerts, or only entries of alerts
\* that had fired.
C5_Witness ==
    /\ lastOp.op = "clearNotification"
    /\ lastOp.found = "stale"

\* C6 as stated: in the application, no alert is shown for a task that is
\* completed or deleted in the store at the moment its timer fires.
C6_NoAlertForCompletedOrDeleted ==
    (lastOp.op \in {"reminderFires", "exactTimeFires"}
     /\ lastOp.outcome = "shown")
        => /\ lastOp.id \in DOMAIN store
           /\ ~store[lastOp.id].completed

\* C7 as stated: when the due-now callback of a scheduling runs, the
\* reminder of the same scheduling, if one was set, is no longer waiting.
C7_ReminderBeforeDueNow ==
    lastOp.op = "exactTimeFires" => lastOp.found # "pending"

\* C8: after clearNotification(id) no timer of the task is pending, and a
\* timer of the task becomes pending again only by a scheduleNotification
\* call for it, so no callback of the cleared scheduling ever runs.
C8_ClearedNeverRuns ==
    /\ [](lastOp.op = "clearNotification" => AllLiveTimers(lastOp.id) = {})
    /\ [][\A taskId \in TaskIds :
            (AllLiveTimers(taskId)' \ AllLiveTimers(taskId)) # {}
                => /\ lastOp'.op = "scheduleNotification"
                   /\ lastOp'.id = taskId]_vars

\* clearNotification has cancelled pending alerts.
C8_Witness ==
    /\ lastOp.op = "clearNotification"
    /\ lastOp.found = "pending"

\* C9: while the permission flag is not granted, scheduleNotification
\* changes neither the mapping, nor the pending timers, nor the flag.
C9_NoOpWithoutPermission ==
    [][(lastOp'.op = "scheduleNotification" /\ ~permissionGranted)
          => UNCHANGED <<scheduledNotifications, timers, nextHandle,
                         permissionGranted>>]_vars

\* scheduleNotification was called without permission for a task that has
\* pending alerts, and they are still pending.
C9_Witness ==
    /\ lastOp.op = "scheduleNotification"
    /\ ~permissionGranted
    /\ PendingUnder(lastOp.id, "exact")

\* C10 as stated: every entry of the mapping refers to an alert that has
\* not fired yet, so a task whose alerts have all fired is not scheduled.
C10_EntriesArePending ==
    \A k \in DOMAIN scheduledNotifications :
        scheduledNotifications[k] \in DOMAIN timers

\* C11 as stated: when requestPermission() resolves, the permission flag
\* equals the boolean it resolved to, for every platform permission and
\* every prior value of the flag.
C11_FlagMatchesResult ==
    (lastOp.op \in {"requestPermission", "requestPermissionSettles"}
     /\ lastOp.outcome \in {"true", "false"})
        => permissionGranted = (lastOp.outcome = "true")

\* C12: requestPermission() opens the permission prompt exactly when the
\* platform permission is default; granted resolves to true and denied to
\* false without a prompt; after the prompt it resolves to true exactly
\* when the user granted.
C12_PromptsOnlyWhenDefault ==
    /\ lastOp.op = "requestPermission"
          => /\ (prompt = "requestPermission")
                    <=> (platformPermission = "default")
             /\ (lastOp.outcome = "pending")
                    <=> (platformPermission = "default")
             /\ platformPermission = "granted" => lastOp.outcome = "true"
             /\ platformPermission = "denied" => lastOp.outcome = "false"
    /\ lastOp.op = "requestPermissionSettles"
          => /\ prompt = "none"
             /\ lastOp.outcome \in {"true", "false"}
             /\ (lastOp.outcome = "true") <=> (platformPermission = "granted")

\* The user granted in the prompt and requestPermission() resolved to true.
C12_Witness ==
    /\ lastOp.op = "requestPermissionSettles"
    /\ lastOp.outcome = "true"
    /\ lastOp.found = "flagFalse"

\* C13: after construction and after every refreshPermissionStatus(), on
\* a platform with notification support, the flag equals (platform
\* permission = granted), and refreshPermissionStatus() returns the flag.
C13_FlagFollowsPlatformOnRead ==
    (lastOp.op \in {"init", "refreshPermissionStatus"}
     /\ platformPermission # "unsupported")
        => /\ permissionGranted = (platformPermission = "granted")
           /\ lastOp.op = "refreshPermissionStatus"
                 => (lastOp.outcome = "true") = permissionGranted

\* A refresh that found the permission revoked outside the application.
C13_Witness ==
    /\ lastOp.op = "refreshPermissionStatus"
    /\ lastOp.found = "flagTrue"
    /\ ~permissionGranted
    /\ platformPermission \in {"denied", "default"}

\* C14: no step turns the permission flag from false to true unless the
\* platform permission is granted when the step ends.
C14_FlagTrueOnlyWhenGranted ==
    [][(~permissionGranted /\ permissionGranted')
          => platformPermission' = "granted"]_vars

\* The flag was turned true by the answer to a permission prompt.
C14_Witness ==
    /\ lastOp.op \in {"requestPermissionSettles", "testPromptSettles"}
    /\ lastOp.found = "flagFalse"
    /\ permissionGranted
    /\ platformPermission = "granted"

\* What testDesktopNotification() does while the permission is denied or
\* default, and when it runs again after its prompt.
TestWithoutPermission ==
    /\ lastOp.op = "testDesktopNotification"
          => /\ platformPermission = "denied"
                   => /\ lastOp.outcome = "false"
                      /\ prompt = "none"
                      /\ lastOp.sound = ""
             /\ platformPermission = "default"
                   => /\ lastOp.outcome = "false"
                      /\ prompt = "testDesktopNotification"
                      /\ lastOp.sound = ""
    /\ lastOp.op = "testPromptSettles"
          => (lastOp.outcome # "notRerun") <=> (platformPermission = "granted")

\* C15 as stated: testDesktopNotification() returns false without a prompt
\* when the permission is denied; prompts, returns false and runs again
\* only on a grant when it is default; and when it is granted creates one
\* test alert, sets the flag and returns true.
C15_Original ==
    /\ TestWithoutPermission
    /\ (lastOp.op = "testDesktopNotification"
        /\ platformPermission = "granted")
          => /\ lastOp.outcome = "true"
             /\ permissionGranted
             /\ lastOp.sound # ""
             /\ prompt = "none"

\* C15 amended: as C15, but with the permission granted the test alert is
\* created, the flag set and true returned unless the platform throws while
\* the alert is constructed; then no alert is created, the flag is left as
\* it was and false is returned.
C15_TestByPermission ==
    /\ TestWithoutPermission
    /\ (lastOp.op = "testDesktopNotification"
        /\ platformPermission = "granted")
          => /\ prompt = "none"
             /\ \/ /\ lastOp.outcome = "true"
                   /\ permissionGranted
                   /\ lastOp.sound # ""
                \/ /\ lastOp.outcome = "false"
                   /\ permissionGranted = (lastOp.found = "flagTrue")
                   /\ lastOp.sound = ""

\* A test with the permission granted that created the alert and turned
\* the flag true.
C15_Witness ==
    /\ lastOp.op = "testDesktopNotification"
    /\ platformPermission = "granted"
    /\ lastOp.outcome = "true"
    /\ lastOp.found = "flagFalse"

\* C16 as stated: on a platform without notification support,
\* requestPermission() and testDesktopNotification() return false and
\* raise no error.
C16_UnsupportedReportsFalse ==
    (platformPermission = "unsupported"
     /\ lastOp.op \in {"requestPermission", "testDesktopNotification"})
        => lastOp.outcome = "false"

\* C17 as stated: an error of the platform while an alert is constructed
\* does not leave the firing callback, and the due-now callback still
\* removes its entry.
C17_ConstructorErrorIsCaught ==
    /\ lastOp.op \in {"reminderFires", "exactTimeFires"}
          => lastOp.outcome # "threw"
    /\ lastOp.op = "exactTimeFires"
          => ExactKey(lastOp.id) \notin DOMAIN scheduledNotifications

\* C18: when the tone fails while an alert fires, the alert is shown all
\* the same, the due-now callback removes its entry, and
\* testDesktopNotification() returns true.
C18_SoundFailureIsSwallowed ==
    lastOp.sound = "fails"
        => /\ lastOp.op \in {"reminderFires", "exactTimeFires"}
                 => lastOp.outcome = "shown"
           /\ lastOp.op = "exactTimeFires"
                 => ExactKey(lastOp.id) \notin DOMAIN scheduledNotifications
           /\ lastOp.op \in {"testDesktopNotification", "testPromptSettles"}
                 => lastOp.outcome = "true"

\* A due-now alert has fired while the tone failed.
C18_Witness ==
    /\ lastOp.op = "exactTimeFires"
    /\ lastOp.sound = "fails"
    /\ lastOp.outcome = "shown"

\* C19: right after clearAllNotifications() the mapping is empty, so the
\* count is 0 and no task is scheduled, and no timer is pending, so no
\* alert scheduled before the call can fire.
C19_AllCleared ==
    lastOp.op = "clearAllNotifications"
        => /\ getScheduledNotificationCount(scheduledNotifications) = 0
           /\ \A taskId \in TaskIds :
                 ~isTaskScheduled(scheduledNotifications, taskId)
           /\ timers = <<>>

\* clearAllNotifications() has cancelled pending alerts.
C19_Witness ==
    /\ lastOp.op = "clearAllNotifications"
    /\ lastOp.found = "pending"

\* C20: in the page, toggling a task to completed leaves it without entry
\* and without pending timer, and toggling a task back to incomplete, with
\* the permission flag granted and the task due more than 5 minutes from
\* now, leaves it with a pending reminder and a pending due-now alert for
\* its due time.
C20_ToggleRoundTrip ==
    lastOp.op = "toggleTask"
        => /\ lastOp.outcome = "completed"
                 => /\ ~isTaskScheduled(scheduledNotifications, lastOp.id)
                    /\ AllLiveTimers(lastOp.id) = {}
           /\ (lastOp.outcome = "incomplete" /\ permissionGranted
               /\ tasks[lastOp.id].scheduledDate - now > ReminderLead)
                 => /\ PendingUnder(lastOp.id, "reminder")
                    /\ PendingUnder(lastOp.id, "exact")
                    /\ Cardinality(AllLiveTimers(lastOp.id)) = 2
                    /\ \A h \in AllLiveTimers(lastOp.id) :
                          timers[h].due = tasks[lastOp.id].scheduledDate

\* A task whose two alerts were pending was toggled to completed, which
\* removed them, and has now been toggled back: both alerts are pending
\* again, under the handles of a later scheduling.
C20_Witness ==
    /\ lastOp.op = "toggleTask"
    /\ lastOp.outcome = "incomplete"
    /\ lastOp.found = "nothing"
    /\ PendingUnder(lastOp.id, "reminder")
    /\ PendingUnder(lastOp.id, "exact")
    /\ scheduledNotifications[ReminderKey(lastOp.id)] > 2

\* The page has nothing under way: no request, no fetch, no prompt, and
\* the list it holds is the content of the store.
Settled ==
    /\ requests = {}
    /\ fetch.status = "idle"
    /\ prompt = "none"
    /\ tasks = store

\* C21 as stated: once the list and the permission state have settled
\* with permission granted, every incomplete task of the list whose due
\* time is still in the future has a pending due-now alert.
C21_SettledTasksHaveAlerts ==
    (Settled /\ hasNotificationPermission /\ permissionGranted)
        => \A id \in DOMAIN tasks :
              (~tasks[id].completed /\ tasks[id].scheduledDate > now)
                  => PendingUnder(id, "exact")

\* C22 as stated: every failed store operation of the page produces a
\* failure notice.
C22_FailureIsNoticed ==
    (lastOp.op = "mutationSettles"
     /\ lastOp.outcome \in {"createFailed", "updateFailed", "deleteFailed"})
        => lastOp.found = "Error"

\* C23: a POST /api/tasks whose title is empty or missing is answered 400
\* with the error and the validation details, and the table holds the same
\* rows as before the request.
C23_EmptyTitleRejected ==
    [][(reply'.method = "POST" /\ reply'.body.title \in {Absent, ""})
          => /\ reply'.status = 400
             /\ reply'.error = "Invalid task data"
             /\ "title" \in reply'.details
             /\ db' = db]_vars

C23_Witness ==
    /\ reply.method = "POST"
    /\ reply.body.title = ""
    /\ reply.status = 400
    /\ db # {}

\* C24: a POST /api/tasks whose scheduledDate is not a valid date is
\* answered 400 by validation, and the storage is not called.
C24_MalformedDateRejected ==
    (reply.method = "POST" /\ reply.body.scheduledDate = "not-a-date")
        => (reply.status = 400 /\ ~reply.called)

\* C25 as stated: DELETE and PATCH for an id that no row has are answered
\* 404 and change no row; DELETE for an id a row has is answered 204 and
\* removes exactly that row.
C25_Original ==
    [][/\ (reply'.method \in {"DELETE", "PATCH"}
           /\ parseInt(reply'.path) \notin Ids(db))
              => (reply'.status = 404 /\ db' = db)
       /\ (reply'.method = "DELETE" /\ parseInt(reply'.path) \in Ids(db))
              => /\ reply'.status = 204
                 /\ db' = {r \in db : r.id # parseInt(reply'.path)}]_vars

\* C25: DELETE and PATCH for an id that no row has are answered 404, or 500
\* when the storage call fails, and change no row; DELETE for an id a row
\* has is answered 204 and removes exactly that row, or is answered 500 and
\* removes nothing.
C25_AbsentIdNotFound ==
    [][/\ (reply'.method \in {"DELETE", "PATCH"}
           /\ parseInt(reply'.path) \notin Ids(db))
              => (reply'.status \in {404, 500} /\ db' = db)
       /\ (reply'.method = "DELETE" /\ parseInt(reply'.path) \in Ids(db))
              => \/ /\ reply'.status = 204
                    /\ db' = {r \in db : r.id # parseInt(reply'.path)}
                 \/ /\ reply'.status = 500
                    /\ db' = db]_vars

C25_Witness ==
    /\ reply.method = "DELETE"
    /\ reply.status = 404
    /\ db # {}

\* C26: the list GET /api/tasks returns holds every row of the table
\* exactly once, and of each adjacent pair the first has the earlier or the
\* same scheduledDate.
C26_AllTasksInDateOrder ==
    (reply.method = "GET" /\ reply.status = 200)
        => /\ Len(reply.json) = Cardinality(db)
           /\ {reply.json[i] : i \in 1 .. Len(reply.json)} = db
           /\ \A i \in 1 .. Len(reply.json) - 1 :
                 reply.json[i].scheduledDate <= reply.json[i + 1].scheduledDate

C26_Witness ==
    /\ reply.method = "GET"
    /\ reply.status = 200
    /\ Len(reply.json) = 2
    /\ reply.json[1].scheduledDate < reply.json[2].scheduledDate
    /\ reply.json[1].id > reply.json[2].id

\* The task a successful POST created, as the table holds it.
Created == reply.json[1]

C28_FieldDomains ==
    \A r \in db :
        /\ r.title # ""
        /\ r.priority \in {"low", "medium", "high"}
        /\ r.category \in {"work", "personal", "shopping", "health"}

\* C29: the ids of the rows are pairwise distinct, and every row a request
\* finds in the table is there afterwards with the same id and createdAt,
\* unless the request is the DELETE that removed it.
C29_IdAndCreatedAtStable ==
    [][/\ \A r1, r2 \in db' : r1.id = r2.id => r1 = r2
       /\ \A r \in db :
             \/ \E r2 \in db' : r2.id = r.id /\ r2.createdAt = r.createdAt
             \/ /\ reply'.method = "DELETE"
                /\ reply'.status = 204
                /\ parseInt(reply'.path) = r.id]_vars

\* C30: what a create, update or delete does to the requests and to the
\* rows of the store is given by the requests, the store and the task list
\* alone; no step consults the permission, the flag or the pending alerts,
\* and each handler that runs sends its request.
C30_StoreOutcomeIgnoresAlerts ==
    [][LET op == lastOp'.op
           id == lastOp'.id
           sent(req) == /\ requests' = requests \cup {req}
                        /\ UNCHANGED <<store, nextId>>
       IN  /\ op = "onSubmit"
              => sent(Request("create", 0, lastOp'.date, FALSE, "sent"))
           /\ op = "toggleTask"
              => /\ id \in DOMAIN tasks
                 /\ sent(Request("update", id, 0, ~tasks[id].completed,
                                 "sent"))
           /\ op = "deleteTask"
              => sent(Request("delete", id, 0, FALSE, "sent"))
           /\ op = "serverHandles"
              => \E req \in requests, ok \in BOOLEAN :
                    LET done == /\ ok
                                /\ (req.kind = "create"
                                    \/ req.id \in DOMAIN store)
                    IN  /\ req.status = "sent"
                        /\ requests' = (requests \ {req}) \cup
                              {[req EXCEPT
                                  !.id = IF req.kind = "create"
                                         THEN nextId ELSE req.id,
                                  !.status = IF done THEN "ok" ELSE "error"]}
                        /\ nextId' = IF done /\ req.kind = "create"
                                     THEN nextId + 1 ELSE nextId
                        /\ store' =
                              IF ~done THEN store
                              ELSE IF req.kind = "create"
                              THEN MapSet(store, nextId, Row(req.date, FALSE))
                              ELSE IF req.kind = "update"
                              THEN MapSet(store, req.id,
                                          Row(store[req.id].scheduledDate,
                                              req.completed))
                              ELSE MapDelete(store, req.id)
           /\ op = "mutationSettles"
              => \E req \in requests :
                    /\ req.status # "sent"
                    /\ requests' = requests \ {req}
                    /\ fetch' = IF req.status = "ok" THEN Invalidated
                                ELSE fetch
                    /\ UNCHANGED <<store, nextId>>
           /\ op \notin {"onSubmit", "toggleTask", "deleteTask",
                         "serverHandles", "mutationSettles"}
              => UNCHANGED <<store, nextId, requests>>]_vars

\* A task is deleted from the store while the platform has no
\* notifications at all.
C30_Witness ==
    /\ lastOp.op = "serverHandles"
    /\ lastOp.outcome = "delete"
    /\ platformPermission = "unsupported"
    /\ store = <<>>
    /\ \E req \in requests : req.kind = "delete" /\ req.status = "ok"

\* C31: after scheduleNotification of a task that is not past due, with the
\* permission flag granted, the due-now timer fires at the task's due time,
\* and when the task is due in more than 5 minutes the reminder timer fires
\* 5 minutes before it.
C31_TimersFireOnTime ==
    (JustScheduled /\ lastOp.date - now >= 0)
        => /\ ExactKey(lastOp.id) \in DOMAIN scheduledNotifications
           /\ timers[scheduledNotifications[ExactKey(lastOp.id)]].fireAt
                 = lastOp.date
           /\ lastOp.date - now > ReminderLead
                 => /\ ReminderKey(lastOp.id) \in DOMAIN scheduledNotifications
                    /\ timers[scheduledNotifications[ReminderKey(lastOp.id)]]
                          .fireAt = lastOp.date - ReminderLead

\* C32: every pending timer of a task is the value of exactly one entry of
\* the map, so clearNotification or clearAllNotifications can still cancel
\* it; and testDesktopNotification, also when it runs again after its
\* prompt, changes neither the map nor the pending timers.
C32_NoTimerLeaks ==
    [][/\ \A h \in DOMAIN timers' :
             Cardinality({k \in DOMAIN scheduledNotifications' :
                             scheduledNotifications'[k] = h}) = 1
       /\ lastOp'.op \in {"testDesktopNotification", "testPromptSettles"}
             => UNCHANGED <<scheduledNotifications, timers>>]_vars

C32_Witness ==
    /\ lastOp.op = "testDesktopNotification"
    /\ lastOp.outcome = "true"
    /\ Cardinality(DOMAIN timers) = 2
    /\ nextHandle >= 4

\* The timers a step starts.
Started == DOMAIN timers' \ DOMAIN timers

C34_ShownOnlyWithFlag ==
    lastOp.op \in {"reminderFires", "exactTimeFires"}
        => /\ lastOp.outcome = "shown" => permissionGranted
           /\ ~permissionGranted
                 => /\ lastOp.outcome = "suppressed"
                    /\ lastOp.op = "exactTimeFires"
                          => ExactKey(lastOp.id)
                                \notin DOMAIN scheduledNotifications

\* The due-now timer of a task, set while the flag was true, has fired
\* after the flag was turned false.
C34_Witness ==
    /\ lastOp.op = "exactTimeFires"
    /\ lastOp.outcome = "suppressed"
    /\ ~permissionGranted
    /\ ExactKey(lastOp.id) \notin DOMAIN scheduledNotifications

\* C35: when a toggle or delete request of the page has failed, with
\* permission granted, the task it was about is in the scheduler as it is
\* in the store: still incomplete and not yet due, it has its pending
\* due-now alert; still completed, it has no pending timer.
C35_FailedRequestKeepsAlerts ==
    (/\ lastOp.op = "mutationSettles"
     /\ lastOp.outcome \in {"updateFailed", "deleteFailed"}
     /\ permissionGranted /\ hasNotificationPermission
     /\ lastOp.id \in DOMAIN store
     /\ store[lastOp.id].scheduledDate <= MaxTimerDelay)
        => /\ (~store[lastOp.id].completed
               /\ store[lastOp.id].scheduledDate > now)
                 => PendingUnder(lastOp.id, "exact")
           /\ store[lastOp.id].completed => AllLiveTimers(lastOp.id) = {}

\* C36: clearNotification(id) and scheduleNotification(task) leave the
\* entries under both keys and the pending timers of every other task id
\* as they were, also when the text of one id begins the text of the other.
C36_OtherTasksUntouched ==
    [][lastOp'.op \in {"scheduleNotification", "clearNotification"}
          => \A j \in PrefixIds \ {lastOp'.id} :
                /\ \A k \in {ExactKey(j), ReminderKey(j)} :
                      /\ k \in DOMAIN scheduledNotifications'
                            <=> k \in DOMAIN scheduledNotifications
                      /\ k \in DOMAIN scheduledNotifications
                            => scheduledNotifications'[k]
                                  = scheduledNotifications[k]
                /\ \A h \in DOMAIN timers :
                      timers[h].taskId = j
                         => h \in DOMAIN timers' /\ timers'[h] = timers[h]
                /\ \A h \in DOMAIN timers' :
                      timers'[h].taskId = j => h \in DOMAIN timers]_vars

\* The alerts of task 1 were cleared while both alerts of task 11 were
\* pending, and those still are.
C36_Witness ==
    /\ lastOp.op = "clearNotification"
    /\ lastOp.id = 1
    /\ lastOp.found = "pending"
    /\ PendingUnder(11, "exact")
    /\ PendingUnder(11, "reminder")

\* scheduleNotification has just set the due-now timer h for task id, with
\* the flag granted and the task not past due; the timer is to fire within
\* the time the model covers.
ScheduledUnder(id, h) ==
    /\ JustScheduled
    /\ lastOp.id = id
    /\ lastOp.date >= now
    /\ ExactKey(id) \in DOMAIN scheduledNotifications
    /\ scheduledNotifications[ExactKey(id)] = h
    /\ timers[h].fireAt <= MaxTime

\* The due-now alert of task id has been shown and its entry removed; or
\* the flag has not stayed true; or the task has been cleared or scheduled
\* again since timer h was set.
ShownOrDisturbed(id, h) ==
    \/ /\ lastOp.op = "exactTimeFires"
       /\ lastOp.id = id
       /\ lastOp.outcome = "shown"
       /\ ExactKey(id) \notin DOMAIN scheduledNotifications
    \/ ~permissionGranted
    \/ /\ lastOp.op \in {"scheduleNotification", "clearNotification",
                         "clearAllNotifications"}
       /\ (ExactKey(id) \in DOMAIN scheduledNotifications
              => scheduledNotifications[ExactKey(id)] # h)

\* C37: once scheduleNotification has set the due-now timer of a task that
\* is not past due, with the flag granted, the alert is eventually shown
\* and its entry removed, unless the flag turns false or the task is
\* cleared or scheduled again.
C37_DueNowEventuallyShown ==
    \A id \in TaskIds, h \in 1 .. MaxTimers :
        ScheduledUnder(id, h) ~> ShownOrDisturbed(id, h)

TypeOK ==
    /\ now \in 0 .. MaxTime
    /\ platformPermission \in Permissions
    /\ prompt \in {"none", "requestPermission", "testDesktopNotification"}
    /\ permissionGranted \in BOOLEAN
    /\ DOMAIN scheduledNotifications \subseteq Keys
    /\ DOMAIN timers \subseteq 1 .. (nextHandle - 1)
    /\ nextHandle <= MaxTimers + 1
    /\ serial \in 1 .. MaxSerial + 1
    /\ Ids(db) \subseteq 1 .. MaxSerial + 1
    /\ Cardinality(db) <= MaxSerial
    /\ reply.status \in {0, 200, 201, 204, 400, 404, 500}
====
